---- MODULE Spec2Model ----
(***************************************************************************)
(* A model of the request handlers of backend/routers/simulate.py:         *)
(*   - the pure handlers simulate_status and simulate_random,              *)
(*   - simulate_rate_limit and the process-wide request_counts store,      *)
(*     stepped statement by statement by worker threads,                   *)
(*   - the coroutines simulate_slow and simulate_timeout on the event loop.*)
(* Time is counted in tenths of a second.  Strings that the code parses    *)
(* are sequences of one-character strings.  Fresh request ids and ISO      *)
(* timestamps of the response bodies are not modelled.                     *)
(***************************************************************************)
EXTENDS Integers, Sequences, FiniteSets, TLC

VARIABLES
    handler_in,     \* the query parameters of the pure handler call
    handler_out,    \* what the pure handler call produced, or NoValue
    drawn_from,     \* the list random.choice was called with
    request_counts, \* client |-> the dict object stored under it, 0 if none
    obj,            \* the {"count", "window_start"} dict objects
    now,            \* time.time(), in tenths of a second
    pc,             \* worker thread |-> the statement it executes next
    req,            \* worker thread |-> the parameters of its request
    loc,            \* worker thread |-> its local variables
    resp,           \* worker thread |-> what its request returned
    served,         \* client |-> the history of its requests
    loop,           \* the task running on the event loop thread, 0 if none
    tpc,            \* task |-> where its request is
    targ,           \* task |-> the handler called and its parameters
    tloc,           \* task |-> the locals of the coroutine and its timer
    tres            \* task |-> what the request returned

pureVars == <<handler_in, handler_out, drawn_from>>
rlVars == <<request_counts, obj, now, pc, req, loc, resp, served>>
loopVars == <<loop, tpc, targ, tloc, tres>>
vars == <<handler_in, handler_out, drawn_from, request_counts, obj, now, pc, req, loc,
          resp, served, loop, tpc, targ, tloc, tres>>


NoValue == [kind |-> "none"]
NoCall == [fn |-> "none"]

(***************************************************************************)
(* Bounds of the model.                                                    *)
(***************************************************************************)
CodeMargin == 6         \* status codes tried below 200 and above 599
MaxEntries == 2         \* entries of a freely composed exclude_codes list
NThreads == 2           \* worker threads of the pool
NTasks == 2             \* requests the event loop is given
MaxLimit == 2           \* limit parameters tried: 0..MaxLimit
MaxWindow == 2          \* window parameters tried: -1..MaxWindow seconds
ClockStep == 5          \* tenths of a second between two clock readings
MaxNow == 30            \* the clock stops here
MaxNowConc == 5         \* the clock stops here while threads interleave

(***************************************************************************)
(* utils/errors.py: get_error_details, and get_common_causes               *)
(***************************************************************************)
KnownCodes == {400, 401, 403, 404, 422, 429, 500, 502, 503, 504}

error_catalog ==
    [c \in KnownCodes |->
        CASE c = 400 -> "Bad Request"
          [] c = 401 -> "Unauthorized"
          [] c = 403 -> "Forbidden"
          [] c = 404 -> "Not Found"
          [] c = 422 -> "Unprocessable Entity"
          [] c = 429 -> "Too Many Requests"
          [] c = 500 -> "Internal Server Error"
          [] c = 502 -> "Bad Gateway"
          [] c = 503 -> "Service Unavailable"
          [] c = 504 -> "Gateway Timeout"]

\* the title of the (title, message, fix) triple
get_error_details(code) ==
    IF code \notin DOMAIN error_catalog THEN "Unknown Error" ELSE error_catalog[code]

\* the first entry of the list of causes
get_common_causes(code) ==
    CASE code = 400 -> "Invalid JSON syntax"
      [] code = 401 -> "Missing API key"
      [] code = 403 -> "Insufficient permissions"
      [] code = 404 -> "Wrong endpoint URL"
      [] code = 422 -> "Validation errors"
      [] code = 429 -> "Too many requests"
      [] code = 500 -> "Server bug"
      [] code = 502 -> "Upstream server error"
      [] code = 503 -> "Server maintenance"
      [] code = 504 -> "Slow upstream response"
      [] OTHER -> "Unknown cause"

(***************************************************************************)
(* simulate_status                                                         *)
(***************************************************************************)
HTTPException(status, detail) ==
    [kind |-> "HTTPException", status_code |-> status, detail |-> detail]

StatusHeaders(code, include_headers) ==
    IF ~include_headers THEN [debug |-> FALSE]
    ELSE IF code = 429
         THEN [debug |-> TRUE, retry_after |-> "60",
               x_ratelimit_limit |-> "100", x_ratelimit_remaining |-> "0"]
    ELSE IF code = 401
         THEN [debug |-> TRUE, www_authenticate |-> "Bearer"]
    ELSE [debug |-> TRUE]

StatusRangeMutant(code) == code < 200 \/ code >= 599

\* line 30: the codes the handler refuses
StatusOutOfRange(code) == code < 200 \/ code > 599

simulate_status(code, include_headers) ==
    IF StatusOutOfRange(code)
    THEN HTTPException(400, "Status code must be between 200-599")
    ELSE [kind |-> "JSONResponse",
          status_code |-> code,
          content |-> [error |-> get_error_details(code),
                       code |-> code,
                       endpoint |-> "/simulate/status",
                       parameters |-> [code |-> code,
                                       include_headers |-> include_headers],
                       common_causes |-> get_common_causes(code)],
          headers |-> StatusHeaders(code, include_headers)]

(***************************************************************************)
(* Strings: str(int), str.split(","), str.strip(), int(str)                *)
(***************************************************************************)
Digits == <<"0", "1", "2", "3", "4", "5", "6", "7", "8", "9">>

IsDigit(ch) == \E i \in 1..Len(Digits) : Digits[i] = ch

DigitVal(ch) == (CHOOSE i \in 1..Len(Digits) : Digits[i] = ch) - 1

RECURSIVE ToStr(_)
\* str(n) for n >= 0
ToStr(n) ==
    IF n < 10 THEN <<Digits[n + 1]>>
    ELSE ToStr(n \div 10) \o <<Digits[(n % 10) + 1]>>

RECURSIVE Split(_)
\* s.split(",")
Split(s) ==
    IF \A i \in 1..Len(s) : s[i] # ","
    THEN <<s>>
    ELSE LET i == CHOOSE k \in 1..Len(s) :
                     s[k] = "," /\ \A j \in 1..(k - 1) : s[j] # ","
         IN  <<SubSeq(s, 1, i - 1)>> \o Split(SubSeq(s, i + 1, Len(s)))

RECURSIVE Strip(_)
\* s.strip(), with the blank as the only whitespace
Strip(s) ==
    IF s = <<>> THEN s
    ELSE IF s[1] = " " THEN Strip(Tail(s))
    ELSE IF s[Len(s)] = " " THEN Strip(SubSeq(s, 1, Len(s) - 1))
    ELSE s

\* the part of an integer literal after its sign
Unsigned(s) == IF s # <<>> /\ s[1] \in {"+", "-"} THEN Tail(s) ELSE s

\* int(s) accepts: blanks around, one optional sign, digits, single
\* underscores between digits
IsIntLiteral(s) ==
    LET b == Unsigned(Strip(s))
    IN  /\ b # <<>>
        /\ IsDigit(b[1]) /\ IsDigit(b[Len(b)])
        /\ \A i \in 1..Len(b) : IsDigit(b[i]) \/ b[i] = "_"
        /\ \A i \in 1..(Len(b) - 1) : ~(b[i] = "_" /\ b[i + 1] = "_")

RECURSIVE DigitsValue(_)
DigitsValue(b) ==
    IF b = <<>> THEN 0
    ELSE IF b[Len(b)] = "_" THEN DigitsValue(SubSeq(b, 1, Len(b) - 1))
    ELSE 10 * DigitsValue(SubSeq(b, 1, Len(b) - 1)) + DigitVal(b[Len(b)])

\* int(s) for a literal s
IntValue(s) ==
    LET t == Strip(s)
        v == DigitsValue(Unsigned(t))
    IN  IF t[1] = "-" THEN -v ELSE v

(***************************************************************************)
(* simulate_random                                                         *)
(***************************************************************************)
AllCodes == <<400, 401, 403, 404, 422, 429, 500, 502, 503, 504>>

Entries(exclude_codes) == [i \in DOMAIN Split(exclude_codes) |->
                              Strip(Split(exclude_codes)[i])]

\* line 275 raises ValueError as soon as one entry is no integer literal
RaisesValueError(exclude_codes) ==
    \E i \in DOMAIN Entries(exclude_codes) : ~IsIntLiteral(Entries(exclude_codes)[i])

excluded(exclude_codes) ==
    {IntValue(Entries(exclude_codes)[i]) : i \in DOMAIN Entries(exclude_codes)}

KeepsListOnErrorMutant(exclude_codes) ==
    LET ok == {i \in DOMAIN Entries(exclude_codes) :
                  IsIntLiteral(Entries(exclude_codes)[i])}
        ex == {IntValue(Entries(exclude_codes)[i]) : i \in ok}
        keep(c) == c \notin ex
        left == IF exclude_codes # <<>> THEN SelectSeq(AllCodes, keep) ELSE AllCodes
    IN  IF left = <<>> THEN <<500>> ELSE left

\* lines 270-281: the list random.choice draws from
possible_codes(exclude_codes) ==
    LET keep(c) == c \notin excluded(exclude_codes)
        left == IF exclude_codes # <<>> /\ ~RaisesValueError(exclude_codes)
                THEN SelectSeq(AllCodes, keep)
                ELSE AllCodes
    IN  IF left = <<>> THEN <<500>> ELSE left

(***************************************************************************)
(* simulate_rate_limit, one statement of shared access per step            *)
(***************************************************************************)
Threads == 1..NThreads
Clients == {"10.0.0.1", "10.0.0.2"}
TenthsPerSecond == 10

Seconds(n) == n * TenthsPerSecond

\* int(x) of a float given in tenths: truncation toward zero
int(x) == IF x >= 0 THEN x \div TenthsPerSecond ELSE -((-x) \div TenthsPerSecond)

NoCounter == [count |-> 0, window_start |-> 0]
NoRequest == [client_ip |-> "-", limit |-> 0, window |-> 0, reset_counts |-> FALSE]
NoLocals == [current_time |-> 0, count_data |-> 0, time_remaining |-> 0,
             reset_epoch |-> 0, current_count |-> 0, loaded |-> -1,
             remaining |-> 0, after |-> "none"]

\* history of a client: the kind of its latest request; with one limit and
\* window throughout, the requests k taken since the window began at start,
\* and whether that window is a later one than the client's first
NoneServed == [last |-> "none", k |-> 0, start |-> 0, later |-> FALSE]

LimitInputs == 0..MaxLimit
WindowInputs == (-1)..MaxWindow

\* the state of the store and of the worker threads after import
InitRL ==
    /\ request_counts = [c \in Clients |-> 0]
    /\ obj = [c \in Clients |-> [i \in Threads |-> NoCounter]]
    /\ now = 0
    /\ pc = [t \in Threads |-> "idle"]
    /\ req = [t \in Threads |-> NoRequest]
    /\ loc = [t \in Threads |-> NoLocals]
    /\ resp = [t \in Threads |-> NoValue]
    /\ served = [c \in Clients |-> NoneServed]

\* thread t holds a reference to dict object i of client c
Holds(t, c, i, pcs, reqs, locs) ==
    /\ pcs[t] \notin {"idle", "done"}
    /\ reqs[t].client_ip = c
    /\ locs[t].count_data = i

\* a dict object nothing refers to any more is freed
Collect(objs, rc, pcs, reqs, locs) ==
    [c \in Clients |-> [i \in Threads |->
        IF rc[c] = i \/ \E t \in Threads : Holds(t, c, i, pcs, reqs, locs)
        THEN objs[c][i]
        ELSE NoCounter]]

\* the dict object the thread's count_data refers to
Data(t) == obj[req[t].client_ip][loc[t].count_data]

Goto(t, label) == pc' = [pc EXCEPT ![t] = label]

SetLocal(t, new) == loc' = [loc EXCEPT ![t] = new]

\* a step of thread t that changes neither the store nor a dict object
LocalStep(t) == UNCHANGED <<request_counts, obj, now, req, served, pureVars, loopVars>>

\* thread t returns r
Return(t, r, rc, objs) ==
    /\ Goto(t, "done")
    /\ resp' = [resp EXCEPT ![t] = r]
    /\ request_counts' = rc
    /\ obj' = Collect(objs, rc, pc', req, loc)
    /\ UNCHANGED <<now, req, loc, served, pureVars, loopVars>>

\* lines 179-180: thread t takes a request and reads the clock
Begin(t, c, l, w, r, from) ==
    /\ pc[t] \in from
    /\ req' = [req EXCEPT ![t] = [client_ip |-> c, limit |-> l, window |-> w,
                                  reset_counts |-> r]]
    /\ loc' = [loc EXCEPT ![t] = [NoLocals EXCEPT !.current_time = now,
                                                   !.after = served[c].last]]
    /\ resp' = [resp EXCEPT ![t] = NoValue]
    /\ Goto(t, "l183")
    /\ UNCHANGED <<request_counts, obj, now, pureVars, loopVars>>

\* line 183
TestReset(t) ==
    /\ pc[t] = "l183"
    /\ Goto(t, IF req[t].reset_counts THEN "l184" ELSE "l193")
    /\ UNCHANGED <<loc, resp>>
    /\ LocalStep(t)

ResetKeepsCounterMutant(t) ==
    /\ pc[t] = "l184"
    /\ Return(t, [kind |-> "dict", status_code |-> 200,
                  content |-> [status |-> "reset", client_ip |-> req[t].client_ip,
                               limit |-> req[t].limit, window |-> req[t].window]],
              request_counts, obj)

\* a reset that empties the whole store, as request_counts.clear() would
ResetClearsStoreMutant(t) ==
    /\ pc[t] = "l184"
    /\ Return(t, [kind |-> "dict", status_code |-> 200,
                  content |-> [status |-> "reset", client_ip |-> req[t].client_ip,
                               limit |-> req[t].limit, window |-> req[t].window]],
              [c \in Clients |-> 0], obj)

\* lines 184-190: request_counts.pop(client_ip, None) and the confirmation
ResetCounts(t) ==
    /\ pc[t] = "l184"
    /\ Return(t, [kind |-> "dict", status_code |-> 200,
                  content |-> [status |-> "reset", client_ip |-> req[t].client_ip,
                               limit |-> req[t].limit, window |-> req[t].window]],
              [request_counts EXCEPT ![req[t].client_ip] = 0], obj)

\* line 193: client_ip not in request_counts
TestAbsent(t) ==
    /\ pc[t] = "l193"
    /\ Goto(t, IF request_counts[req[t].client_ip] = 0 THEN "l194" ELSE "l196")
    /\ UNCHANGED <<loc, resp>>
    /\ LocalStep(t)

\* line 194: a fresh dict is stored under client_ip
CreateCounter(t) ==
    /\ pc[t] = "l194"
    /\ Goto(t, "l196")
    /\ request_counts' = [request_counts EXCEPT ![req[t].client_ip] = t]
    /\ obj' = Collect([obj EXCEPT ![req[t].client_ip][t] =
                          [count |-> 0, window_start |-> loc[t].current_time]],
                      request_counts', pc', req, loc)
    /\ UNCHANGED <<now, req, loc, resp, served, pureVars, loopVars>>

\* line 196: count_data = request_counts[client_ip]; a missing key raises
\* KeyError, which no handler catches
FetchCounter(t) ==
    /\ pc[t] = "l196"
    /\ IF request_counts[req[t].client_ip] = 0
       THEN Return(t, [kind |-> "unhandled", status_code |-> 500,
                       exception |-> "KeyError"], request_counts, obj)
       ELSE /\ Goto(t, "l199")
            /\ SetLocal(t, [loc[t] EXCEPT
                               !.count_data = request_counts[req[t].client_ip]])
            /\ UNCHANGED resp
            /\ LocalStep(t)

WindowExpiredMutant(elapsed, window) == elapsed >= Seconds(window)

\* line 199: the window has expired
WindowExpired(elapsed, window) == elapsed > Seconds(window)

\* line 199
TestWindow(t) ==
    /\ pc[t] = "l199"
    /\ Goto(t, IF WindowExpired(loc[t].current_time - Data(t).window_start,
                                req[t].window)
               THEN "l200" ELSE "l204")
    /\ UNCHANGED <<loc, resp>>
    /\ LocalStep(t)

\* line 200: count_data["count"] = 0
ZeroCount(t) ==
    /\ pc[t] = "l200"
    /\ Goto(t, "l201")
    /\ obj' = [obj EXCEPT ![req[t].client_ip][loc[t].count_data].count = 0]
    /\ UNCHANGED <<request_counts, now, req, loc, resp, served, pureVars, loopVars>>

\* line 201: count_data["window_start"] = current_time
RestartWindow(t) ==
    /\ pc[t] = "l201"
    /\ Goto(t, "l204")
    /\ obj' = [obj EXCEPT ![req[t].client_ip][loc[t].count_data].window_start =
                              loc[t].current_time]
    /\ UNCHANGED <<request_counts, now, req, loc, resp, served, pureVars, loopVars>>

LimitReachedMutant(count, limit) == count > limit

\* line 204
LimitReached(count, limit) == count >= limit

\* line 204
TestLimit(t) ==
    /\ pc[t] = "l204"
    /\ Goto(t, IF LimitReached(Data(t).count, req[t].limit) THEN "l205" ELSE "l238")
    /\ UNCHANGED <<loc, resp>>
    /\ LocalStep(t)

\* line 205: time_remaining
TimeRemaining(t) ==
    /\ pc[t] = "l205"
    /\ Goto(t, "l211")
    /\ SetLocal(t, [loc[t] EXCEPT !.time_remaining =
           Seconds(req[t].window) - (loc[t].current_time - Data(t).window_start)])
    /\ UNCHANGED resp
    /\ LocalStep(t)

RetryAfterCeilMutant(time_remaining) ==
    -((-time_remaining) \div TenthsPerSecond)

\* lines 208 and 219
retry_after(time_remaining) == int(time_remaining) + 1

\* lines 207-213: the x-ratelimit-reset header reads window_start again
ResetEpoch429(t) ==
    /\ pc[t] = "l211"
    /\ Goto(t, "l224")
    /\ SetLocal(t, [loc[t] EXCEPT !.reset_epoch =
           int(Data(t).window_start + Seconds(req[t].window))])
    /\ UNCHANGED resp
    /\ LocalStep(t)

\* line 224: debug_info reads the count
DebugCount(t) ==
    /\ pc[t] = "l224"
    /\ Goto(t, "l225")
    /\ SetLocal(t, [loc[t] EXCEPT !.current_count = Data(t).count])
    /\ UNCHANGED resp
    /\ LocalStep(t)

\* lines 215-235: debug_info reads window_start, and the 429 is returned
Return429(t) ==
    /\ pc[t] = "l225"
    /\ Return(t, [kind |-> "JSONResponse", status_code |-> 429,
                  headers |-> [retry_after |-> retry_after(loc[t].time_remaining),
                               x_ratelimit_limit |-> req[t].limit,
                               x_ratelimit_remaining |-> 0,
                               x_ratelimit_reset |-> loc[t].reset_epoch],
                  content |-> [code |-> 429,
                               retry_after |-> retry_after(loc[t].time_remaining),
                               limit |-> req[t].limit,
                               remaining |-> 0,
                               window |-> req[t].window,
                               current_count |-> loc[t].current_count,
                               window_start |-> Data(t).window_start,
                               client_ip |-> req[t].client_ip]],
              request_counts, obj)

\* line 238, first half: count_data["count"] is loaded
LoadCount(t) ==
    /\ pc[t] = "l238"
    /\ Goto(t, "l238s")
    /\ SetLocal(t, [loc[t] EXCEPT !.loaded = Data(t).count])
    /\ UNCHANGED resp
    /\ LocalStep(t)

\* line 238, second half: the loaded value plus one is stored
StoreCount(t) ==
    /\ pc[t] = "l238s"
    /\ Goto(t, "l239")
    /\ obj' = [obj EXCEPT ![req[t].client_ip][loc[t].count_data].count =
                              loc[t].loaded + 1]
    /\ UNCHANGED <<request_counts, now, req, loc, resp, served, pureVars, loopVars>>

\* line 239: remaining = limit - count_data["count"]
Remaining(t) ==
    /\ pc[t] = "l239"
    /\ Goto(t, "l244")
    /\ SetLocal(t, [loc[t] EXCEPT !.remaining = req[t].limit - Data(t).count])
    /\ UNCHANGED resp
    /\ LocalStep(t)

\* lines 241-245: the x-ratelimit-reset header reads window_start
ResetEpoch200(t) ==
    /\ pc[t] = "l244"
    /\ Goto(t, "l255")
    /\ SetLocal(t, [loc[t] EXCEPT !.reset_epoch =
           int(Data(t).window_start + Seconds(req[t].window))])
    /\ UNCHANGED resp
    /\ LocalStep(t)

\* lines 247-259: current_count reads the count, and the 200 is returned
Return200(t) ==
    /\ pc[t] = "l255"
    /\ Return(t, [kind |-> "JSONResponse", status_code |-> 200,
                  headers |-> [x_ratelimit_limit |-> req[t].limit,
                               x_ratelimit_remaining |-> loc[t].remaining,
                               x_ratelimit_reset |-> loc[t].reset_epoch],
                  content |-> [status |-> "success",
                               limit |-> req[t].limit,
                               remaining |-> loc[t].remaining,
                               window |-> req[t].window,
                               current_count |-> Data(t).count]],
              request_counts, obj)

\* the statements of a request that is no reset
NormalStatement(t) ==
    \/ TestReset(t)
    \/ TestAbsent(t) \/ CreateCounter(t) \/ FetchCounter(t)
    \/ TestWindow(t) \/ ZeroCount(t) \/ RestartWindow(t)
    \/ TestLimit(t)
    \/ TimeRemaining(t) \/ ResetEpoch429(t) \/ DebugCount(t) \/ Return429(t)
    \/ LoadCount(t) \/ StoreCount(t) \/ Remaining(t) \/ ResetEpoch200(t)
    \/ Return200(t)

\* the statements of the handler after the request was taken
Statement(t) == ResetCounts(t) \/ NormalStatement(t)

\* the clock advances
Tick(cap) ==
    /\ now + ClockStep <= cap
    /\ now' = now + ClockStep
    /\ UNCHANGED <<request_counts, obj, pc, req, loc, resp, served, pureVars, loopVars>>

(***************************************************************************)
(* The coroutines simulate_slow, simulate_timeout and                      *)
(* simulate_network_error on the event loop, and simulate_status on a      *)
(* worker thread.  A coroutine holds the event loop thread from the        *)
(* moment it is started or resumed until it awaits or returns; a request   *)
(* is started, and a plain function is handed to a worker thread, by the   *)
(* event loop thread.                                                      *)
(***************************************************************************)
Tasks == 1..NTasks
MAX_DELAY == 30
MAX_HANG == 120
MIN_DELAY == 1

\* pending: the requests that had arrived but were not started when the
\* coroutine suspended
NoTaskLocals == [actual_delay |-> 0, hang_time |-> 0, timer |-> 0, slept |-> 0,
                 suspended |-> FALSE, pending |-> {}]

InitLoop ==
    /\ loop = 0
    /\ tpc = [k \in Tasks |-> "new"]
    /\ targ = [k \in Tasks |-> NoCall]
    /\ tloc = [k \in Tasks |-> NoTaskLocals]
    /\ tres = [k \in Tasks |-> NoValue]

SecondsInputs == {-1, 0, MAX_DELAY, MAX_DELAY + 1}
HangInputs == {1, MAX_HANG + 1}
\* random.uniform(-1, 2), in tenths of a second
JitterInputs == {-10, 20}

CallInputs ==
    [fn : {"slow"}, seconds : SecondsInputs, jitter : BOOLEAN]
    \cup [fn : {"timeout"}, hang_time : HangInputs]
    \cup [fn : {"network_error"},
          error_type : {"connection_reset", "dns_failure", "other"}]
    \cup [fn : {"status"}, code : {404}, include_headers : {TRUE}]

Max(a, b) == IF a >= b THEN a ELSE b
Min(a, b) == IF a <= b THEN a ELSE b

TaskGoto(k, label) == tpc' = [tpc EXCEPT ![k] = label]

\* task k ends with r and gives the event loop thread back
TaskReturn(k, r) ==
    /\ TaskGoto(k, "done")
    /\ tres' = [tres EXCEPT ![k] = r]
    /\ loop' = 0
    /\ UNCHANGED <<targ, tloc, pureVars, rlVars>>

\* the event loop starts the handler of a request that has arrived; the
\* tasks are numbered in the order in which they are started
Dispatch(k) ==
    /\ tpc[k] = "new"
    /\ \A j \in 1..(k - 1) : tpc[j] # "new"
    /\ loop = 0
    /\ \E call \in CallInputs : targ' = [targ EXCEPT ![k] = call]
    /\ loop' = k
    /\ TaskGoto(k, "started")
    /\ UNCHANGED <<tloc, tres, pureVars, rlVars>>

SlowRejectsMutant(seconds) == seconds >= MAX_DELAY

\* line 115
SlowRejects(seconds) == seconds > MAX_DELAY

\* lines 115-116
SlowValidate(k) ==
    /\ tpc[k] = "started" /\ loop = k /\ targ[k].fn = "slow"
    /\ IF SlowRejects(targ[k].seconds)
       THEN TaskReturn(k, HTTPException(400, "Maximum delay is 30 seconds"))
       ELSE /\ TaskGoto(k, "l118")
            /\ UNCHANGED <<loop, targ, tloc, tres, pureVars, rlVars>>

JitterNoFloorMutant(seconds, jitter, u) ==
    IF jitter THEN Max(0, Seconds(seconds) + u) ELSE Seconds(seconds)

\* lines 118-121, u the value of random.uniform(-1, 2)
actual_delay(seconds, jitter, u) ==
    IF jitter THEN Max(MIN_DELAY, Seconds(seconds) + u) ELSE Seconds(seconds)

\* the timer of asyncio.sleep(delay): a delay <= 0 only yields
SleepTimer(delay) == Max(0, delay)

\* a wait that keeps the event loop thread, as time.sleep would
AwaitBlockingMutant(k, locals, delay) ==
    /\ tloc' = [tloc EXCEPT ![k] = [locals EXCEPT !.timer = SleepTimer(delay),
                                                 !.slept = 0,
                                                 !.suspended = TRUE,
                                                 !.pending =
                                                    {j \in Tasks : tpc[j] = "new"}]]
    /\ loop' = k
    /\ TaskGoto(k, "sleeping")
    /\ UNCHANGED <<targ, tres, pureVars, rlVars>>

\* the coroutine of task k awaits asyncio.sleep(delay)
Await(k, locals, delay) ==
    /\ tloc' = [tloc EXCEPT ![k] = [locals EXCEPT !.timer = SleepTimer(delay),
                                                 !.slept = 0,
                                                 !.suspended = TRUE,
                                                 !.pending =
                                                    {j \in Tasks : tpc[j] = "new"}]]
    /\ loop' = 0
    /\ TaskGoto(k, "sleeping")
    /\ UNCHANGED <<targ, tres, pureVars, rlVars>>

\* lines 118-124: the delay is computed, start_time is read and the
\* coroutine awaits asyncio.sleep(actual_delay)
SlowSleep(k) ==
    /\ tpc[k] = "l118" /\ loop = k
    /\ \E u \in JitterInputs :
          Await(k, [tloc[k] EXCEPT !.actual_delay =
                       actual_delay(targ[k].seconds, targ[k].jitter, u)],
                actual_delay(targ[k].seconds, targ[k].jitter, u))

\* the event loop resumes a coroutine whose timer has run out
Wake(k) ==
    /\ tpc[k] = "sleeping"
    /\ tloc[k].timer = 0
    /\ loop = 0
    /\ loop' = k
    /\ TaskGoto(k, "woken")
    /\ UNCHANGED <<targ, tloc, tres, pureVars, rlVars>>

\* lines 125-139: end_time is read and the metadata returned
SlowReturn(k) ==
    /\ tpc[k] = "woken" /\ loop = k /\ targ[k].fn = "slow"
    /\ TaskReturn(k, [kind |-> "dict", status_code |-> 200,
                      content |-> [status |-> "success",
                                   delay_seconds |-> tloc[k].actual_delay,
                                   requested_delay |-> targ[k].seconds,
                                   actual_elapsed |-> tloc[k].slept,
                                   jitter_applied |-> targ[k].jitter]])

\* line 151
hang_time(requested) == Min(requested, MAX_HANG)

\* lines 151-154
TimeoutSleep(k) ==
    /\ tpc[k] = "started" /\ loop = k /\ targ[k].fn = "timeout"
    /\ Await(k, [tloc[k] EXCEPT !.hang_time = hang_time(targ[k].hang_time)],
             Seconds(hang_time(targ[k].hang_time)))

\* lines 157-161
TimeoutReturn(k) ==
    /\ tpc[k] = "woken" /\ loop = k /\ targ[k].fn = "timeout"
    /\ TaskReturn(k, [kind |-> "dict", status_code |-> 200,
                      content |-> [status |-> "timeout_expired",
                                   hang_time |-> tloc[k].hang_time]])

\* lines 294-332
simulate_network_error(error_type) ==
    CASE error_type = "connection_reset" ->
             HTTPException(500, "Connection reset by peer")
      [] error_type = "dns_failure" ->
             [kind |-> "JSONResponse", status_code |-> 502,
              content |-> [error |-> "Bad Gateway", code |-> 502,
                           error_type |-> "dns_resolution_failure"]]
      [] error_type = "ssl_error" ->
             [kind |-> "JSONResponse", status_code |-> 502,
              content |-> [error |-> "SSL/TLS Error", code |-> 502,
                           error_type |-> "ssl_verification_failure"]]
      [] OTHER -> HTTPException(400, "Unknown network error type")

\* the coroutine simulate_network_error has no await
NetworkError(k) ==
    /\ tpc[k] = "started" /\ loop = k /\ targ[k].fn = "network_error"
    /\ TaskReturn(k, simulate_network_error(targ[k].error_type))

\* simulate_status is a plain function: the event loop hands it to a
\* worker thread
ToThread(k) ==
    /\ tpc[k] = "started" /\ loop = k /\ targ[k].fn = "status"
    /\ loop' = 0
    /\ TaskGoto(k, "in_thread")
    /\ UNCHANGED <<targ, tloc, tres, pureVars, rlVars>>

\* the worker thread runs simulate_status
StatusInThread(k) ==
    /\ tpc[k] = "in_thread"
    /\ TaskGoto(k, "done")
    /\ tres' = [tres EXCEPT ![k] =
                   simulate_status(targ[k].code, targ[k].include_headers)]
    /\ UNCHANGED <<loop, targ, tloc, pureVars, rlVars>>

Sleepers == {k \in Tasks : tpc[k] = "sleeping"}

\* time passes up to the earliest timer still running
Elapse ==
    /\ \E k \in Sleepers : tloc[k].timer > 0
    /\ LET m == CHOOSE d \in {tloc[k].timer : k \in {j \in Sleepers : tloc[j].timer > 0}} :
                    \A k \in Sleepers : tloc[k].timer > 0 => d <= tloc[k].timer
       IN  tloc' = [k \in Tasks |->
                       IF k \in Sleepers
                       THEN [tloc[k] EXCEPT !.timer = Max(0, @ - m),
                                            !.slept = @ + m]
                       ELSE tloc[k]]
    /\ UNCHANGED <<loop, tpc, targ, tres, pureVars, rlVars>>

\* what a task does once its request was started
Progress ==
    \/ \E k \in Tasks : SlowValidate(k) \/ SlowSleep(k) \/ SlowReturn(k)
    \/ \E k \in Tasks : TimeoutSleep(k) \/ TimeoutReturn(k)
    \/ \E k \in Tasks : NetworkError(k) \/ ToThread(k) \/ StatusInThread(k)
    \/ \E k \in Tasks : Wake(k)
    \/ Elapse

Arrive == \E k \in Tasks : Dispatch(k)

NextLoop == Arrive \/ Progress

InitLoopSpec ==
    /\ handler_in = NoCall
    /\ handler_out = NoValue
    /\ drawn_from = <<>>
    /\ InitRL
    /\ InitLoop

SpecLoop == InitLoopSpec /\ [][NextLoop]_vars

\* a started coroutine is run, a due timer fires and time passes
SpecLoopFair == SpecLoop /\ WF_vars(Progress)

(***************************************************************************)
(* The inputs of the pure handlers                                         *)
(***************************************************************************)
StatusCodeInputs ==
    ((200 - CodeMargin)..(599 + CodeMargin)) \cup {-1, 0, 1000}

RECURSIVE Join(_)
\* ",".join(entries)
Join(entries) ==
    IF Len(entries) = 0 THEN <<>>
    ELSE IF Len(entries) = 1 THEN entries[1]
    ELSE entries[1] \o <<",">> \o Join(Tail(entries))

EntryInputs ==
    {ToStr(400), ToStr(500), <<" ">> \o ToStr(503) \o <<" ">>,
     <<"+">> \o ToStr(404), <<"-", "1">>, <<"5", "_", "0", "2">>,
     <<"a", "b", "c">>, <<>>, <<"4", "0", " ", "1">>, <<"4", "_", "_", "2">>}

RECURSIVE SeqsUpTo(_, _)
SeqsUpTo(S, n) ==
    IF n = 0 THEN {<<>>}
    ELSE SeqsUpTo(S, n - 1) \cup
         {Append(q, e) : q \in {p \in SeqsUpTo(S, n - 1) : Len(p) = n - 1}, e \in S}

\* every pool code but AllCodes[k], in the pool's order
AllBut(k) == LET other(c) == c # AllCodes[k]
                 left == SelectSeq(AllCodes, other)
             IN  [i \in DOMAIN left |-> ToStr(left[i])]

AllOf == [i \in DOMAIN AllCodes |-> ToStr(AllCodes[i])]

ExcludeInputs ==
    {Join(q) : q \in SeqsUpTo(EntryInputs, MaxEntries)}
    \cup {Join(AllBut(k)) : k \in DOMAIN AllCodes}
    \cup {Join(Append(AllBut(k), e)) : k \in DOMAIN AllCodes,
                                       e \in {<<"a", "b", "c">>, <<>>}}
    \cup {Join(AllOf), Join(Append(AllOf, <<"x">>))}

(***************************************************************************)
(* The pure handlers as a state machine: one call per behaviour            *)
(***************************************************************************)
InitPure ==
    /\ handler_in \in
          [fn : {"status"}, code : StatusCodeInputs, include_headers : BOOLEAN]
          \cup [fn : {"random"}, exclude_codes : ExcludeInputs]
    /\ handler_out = NoValue
    /\ drawn_from = <<>>
    /\ InitRL
    /\ InitLoop

StatusCall ==
    /\ handler_in.fn = "status"
    /\ handler_out = NoValue
    /\ handler_out' = simulate_status(handler_in.code, handler_in.include_headers)
    /\ UNCHANGED <<handler_in, drawn_from, rlVars, loopVars>>

\* random.choice is any element of the list; the optional time.sleep of
\* lines 286-287 changes no state
RandomCall ==
    /\ handler_in.fn = "random"
    /\ handler_out = NoValue
    /\ drawn_from' = possible_codes(handler_in.exclude_codes)
    /\ \E i \in DOMAIN drawn_from' :
          handler_out' = simulate_status(drawn_from'[i], TRUE)
    /\ UNCHANGED <<handler_in, rlVars, loopVars>>

NextPure == StatusCall \/ RandomCall

SpecPure == InitPure /\ [][NextPure]_vars

(***************************************************************************)
(* Claims about the pure handlers (specification SpecPure)                 *)
(***************************************************************************)
\* C5: for every code in [200, 599] the status handler answers with exactly
\* that HTTP status and a body whose code field equals it; for every code
\* outside the range it raises the 400 rejection, which carries no body.
C5_StatusEchoesCode ==
    (handler_in.fn = "status" /\ handler_out # NoValue) =>
        IF handler_in.code \in 200..599
        THEN /\ handler_out.kind = "JSONResponse"
             /\ handler_out.status_code = handler_in.code
             /\ handler_out.content.code = handler_in.code
        ELSE /\ handler_out.kind = "HTTPException"
             /\ handler_out.status_code = 400
             /\ "content" \notin DOMAIN handler_out

C5_Witness ==
    /\ handler_in.fn = "status"
    /\ handler_in.code = 599
    /\ handler_out # NoValue
    /\ handler_out.status_code = 599

\* the entries of the list that parse as integers, as values
ParsedEntries(s) ==
    {IntValue(Split(s)[i]) : i \in {j \in DOMAIN Split(s) : IsIntLiteral(Split(s)[j])}}

AllEntriesParse(s) == \A i \in DOMAIN Split(s) : IsIntLiteral(Split(s)[i])

OrFallback(pool) == IF pool = {} THEN {500} ELSE pool

\* C6 as stated: the code returned by the random-fault handler is in the
\* pool minus every entry of exclude_codes that parses as an integer
\* (entries that do not parse are ignored one by one), or is 500 when that
\* set is empty.
C6_IgnoresBadEntriesOneByOne ==
    (handler_in.fn = "random" /\ handler_out # NoValue) =>
        /\ handler_out.kind = "JSONResponse"
        /\ handler_out.status_code \in
              OrFallback(KnownCodes \ ParsedEntries(handler_in.exclude_codes))

\* the codes the handler draws from, for the list s
C6_Pool(s) ==
    IF AllEntriesParse(s) THEN OrFallback(KnownCodes \ ParsedEntries(s))
    ELSE KnownCodes

\* C6 amended: the code returned is in the pool minus the entries of
\* exclude_codes when every entry parses as an integer, and in the whole
\* pool when the string is empty or any one entry does not parse; it is 500
\* when the set is empty, and a well-formed list of all pool codes but one
\* always returns the remaining code.  The codes random.choice draws from
\* are exactly that set.
C6_OneBadEntryCancelsTheList ==
    (handler_in.fn = "random" /\ handler_out # NoValue) =>
        LET s == handler_in.exclude_codes
        IN  /\ handler_out.kind = "JSONResponse"
            /\ handler_out.content.code = handler_out.status_code
            /\ handler_out.status_code \in C6_Pool(s)
            /\ {drawn_from[i] : i \in DOMAIN drawn_from} = C6_Pool(s)
            /\ \A k \in DOMAIN AllCodes :
                  s = Join(AllBut(k)) => handler_out.status_code = AllCodes[k]

C6_Witness ==
    /\ handler_in.fn = "random"
    /\ handler_in.exclude_codes = Join(AllBut(3))
    /\ handler_out # NoValue
    /\ handler_out.status_code = 403

(***************************************************************************)
(* The rate-limit handler under three schedules                            *)
(***************************************************************************)
InitWorkers ==
    /\ handler_in = NoCall
    /\ handler_out = NoValue
    /\ drawn_from = <<>>
    /\ InitRL
    /\ InitLoop

Kind(r) == IF r THEN "reset" ELSE "normal"

\* Requests arrive while others are in flight: every worker thread of the
\* pool serves one request, and the threads interleave statement by
\* statement.
ConcBegin ==
    \E t \in Threads, c \in Clients, l \in 1..MaxLimit, w \in 0..1, r \in BOOLEAN :
        /\ Begin(t, c, l, w, r, {"idle"})
        /\ served' = [served EXCEPT ![c].last = Kind(r)]

ConcStatement == \E t \in Threads : Statement(t)

ConcTick == Tick(MaxNowConc)

NextConc == ConcBegin \/ ConcStatement \/ ConcTick

SpecConc == InitWorkers /\ [][NextConc]_vars

\* Requests arrive one after the other: thread 1 serves each to its end
\* before the next one is taken.
SeqBegin ==
    \E c \in Clients, l \in LimitInputs, w \in WindowInputs, r \in BOOLEAN :
        /\ Begin(1, c, l, w, r, {"idle", "done"})
        /\ served' = [served EXCEPT ![c].last = Kind(r)]

SeqStatement == Statement(1)

SeqTick == pc[1] \in {"idle", "done"} /\ Tick(MaxNow)

NextSeq == SeqBegin \/ SeqStatement \/ SeqTick

SpecSeq == InitWorkers /\ [][NextSeq]_vars

\* Requests arrive one after the other, none is a reset, and all carry the
\* limit and window of the first.
FixedBegin ==
    \E c \in Clients, l \in LimitInputs, w \in WindowInputs :
        /\ pc[1] = "done" => (l = req[1].limit /\ w = req[1].window)
        /\ LET fresh == served[c].k = 0
               over == now - served[c].start > Seconds(w)
           IN  /\ fresh \/ over \/ served[c].k <= l + 1
               /\ served' = [served EXCEPT ![c] =
                     IF fresh \/ over
                     THEN [last |-> "normal", k |-> 1, start |-> now,
                           later |-> ~fresh]
                     ELSE [@ EXCEPT !.k = @ + 1]]
        /\ Begin(1, c, l, w, FALSE, {"idle", "done"})

FixedStatement == NormalStatement(1)

NextFixed == FixedBegin \/ FixedStatement \/ SeqTick

SpecFixed == InitWorkers /\ [][NextFixed]_vars

(***************************************************************************)
(* Claims about the rate-limit handler                                     *)
(***************************************************************************)
Done(t) == pc[t] = "done"

Served200(t) == Done(t) /\ resp[t].kind = "JSONResponse" /\ resp[t].status_code = 200

Served429(t) == Done(t) /\ resp[t].kind = "JSONResponse" /\ resp[t].status_code = 429

\* the threads whose request is a normal one of client c
NormalOf(c) == {t \in Threads : pc[t] # "idle" /\ req[t].client_ip = c
                                  /\ ~req[t].reset_counts}

\* the requests of the threads in S carry one limit and one window, and
\* were all taken inside one window
OneWindow(S) ==
    \A t, u \in S :
        /\ req[t].limit = req[u].limit
        /\ req[t].window = req[u].window
        /\ loc[t].current_time - loc[u].current_time <= Seconds(req[t].window)

\* C1 (specification SpecConc): when the concurrent normal requests of one
\* client, all with one limit and inside one window and with no reset of
\* that client among them, have all returned, at most limit of them have
\* returned 200, all of them have if they are no more than limit, and no
\* two of those that returned 200 loaded the same count for their increment.
C1_IncrementsAreSerialized ==
    \A c \in Clients :
        LET S == NormalOf(c)
            ok == {t \in S : Served200(t)}
        IN  ( /\ S # {}
              /\ \A t \in Threads : pc[t] # "idle" /\ req[t].client_ip = c => t \in S
              /\ \A t \in S : Done(t)
              /\ OneWindow(S) ) =>
            \A t \in S :
                /\ Cardinality(ok) <= req[t].limit
                /\ Cardinality(S) <= req[t].limit => ok = S
                /\ \A u \in ok \ {t} : t \in ok => loc[t].loaded # loc[u].loaded

\* C8 (specification SpecConc): no request ends in an exception that no
\* handler catches.
C8_NoUnhandledFault ==
    \A t \in Threads : Done(t) => resp[t].kind # "unhandled"

\* what C2 expects of the request thread 1 has just answered, the k-th of
\* its client's window
C2_Expected ==
    LET c == req[1].client_ip
        L == req[1].limit
        k == served[c].k
    IN  IF (served[c].later /\ k = 1) \/ k <= L
        THEN /\ Served200(1)
             /\ resp[1].content.remaining = L - k
             /\ resp[1].headers.x_ratelimit_remaining = L - k
        ELSE Served429(1)

\* C2 as stated (specification SpecFixed): with one limit L and window W
\* throughout and no counter at the start, the first L requests of a client
\* inside a window return 200 with remaining L-1, ..., 0, every further one
\* inside the window returns 429, and the first request after the window
\* has elapsed returns 200 with remaining L-1.
C2_QuotaThenRefusal == Done(1) => C2_Expected

\* C2 amended: the same for every limit L >= 1; with L <= 0 every request
\* returns 429.
C2_QuotaThenRefusalPositiveLimit ==
    Done(1) => IF req[1].limit >= 1 THEN C2_Expected ELSE Served429(1)

C2_Witness ==
    /\ Done(1)
    /\ req[1].limit = 2 /\ req[1].window = 1
    /\ served[req[1].client_ip].later /\ served[req[1].client_ip].k = 1
    /\ Served200(1)
    /\ resp[1].content.remaining = 1

\* the reset path: such a request is only ever at the test of line 183, at
\* the pop of line 184 or done, has loaded no count, and once done has
\* returned the confirmation and left no counter under its client
C3_ResetPath ==
    \A t \in Threads :
        req[t].reset_counts =>
            /\ pc[t] \in {"l183", "l184", "done"}
            /\ loc[t].loaded = -1
            /\ Done(t) =>
                  /\ resp[t].kind = "dict"
                  /\ resp[t].content.status = "reset"
                  /\ request_counts[req[t].client_ip] = 0

\* the normal request of thread t that came right after a reset of its
\* client has returned 200 with remaining = limit - 1
C3_FreshAfterReset(t) ==
    /\ Served200(t)
    /\ resp[t].content.remaining = req[t].limit - 1
    /\ resp[t].content.current_count = 1

\* C3 as stated (specification SpecSeq): a reset request removes the
\* client's counter, increments nothing, evaluates no limit and returns the
\* confirmation whether or not a counter existed; the normal request of
\* that client that follows returns 200 with remaining = limit - 1.
C3_ResetThenFresh ==
    /\ C3_ResetPath
    /\ \A t \in Threads :
          (Done(t) /\ ~req[t].reset_counts /\ loc[t].after = "reset") =>
              C3_FreshAfterReset(t)

\* C3 amended: the same, the following normal request returning 200 with
\* remaining = limit - 1 when its limit is at least 1, and 429 otherwise.
C3_ResetThenFreshPositiveLimit ==
    /\ C3_ResetPath
    /\ \A t \in Threads :
          (Done(t) /\ ~req[t].reset_counts /\ loc[t].after = "reset") =>
              IF req[t].limit >= 1 THEN C3_FreshAfterReset(t) ELSE Served429(t)

C3_Witness ==
    /\ Done(1) /\ ~req[1].reset_counts /\ loc[1].after = "reset"
    /\ req[1].limit = 2
    /\ Served200(1) /\ resp[1].content.remaining = 1

\* the seconds left of the window of the counter of thread t's client, in
\* tenths, at the time thread t read the clock
C4_Left(t) ==
    LET c == req[t].client_ip
    IN  Seconds(req[t].window)
            - (loc[t].current_time - obj[c][request_counts[c]].window_start)

C4_Ceil(x) == -((-x) \div 10)

\* the whole seconds of x tenths, fractions dropped
C4_Whole(x) == IF x >= 0 THEN x \div 10 ELSE -((-x) \div 10)

C4_AtLeastOne(n) == IF n >= 1 THEN n ELSE 1

\* the headers of the 429 of thread t other than retry-after
C4_OtherHeaders(t) ==
    LET c == req[t].client_ip
    IN  /\ resp[t].headers.x_ratelimit_remaining = 0
        /\ resp[t].content.remaining = 0
        /\ resp[t].headers.x_ratelimit_reset =
              C4_Whole(obj[c][request_counts[c]].window_start
                          + Seconds(req[t].window))

\* C4 as stated (specification SpecSeq): every 429 carries retry-after
\* equal to the seconds left of the window rounded up to a whole second and
\* at least 1, x-ratelimit-remaining 0 and the reset epoch of
\* windowStart + window (in whole seconds).
C4_RetryAfterRoundsUp ==
    \A t \in Threads :
        Served429(t) =>
            /\ resp[t].headers.retry_after = C4_AtLeastOne(C4_Ceil(C4_Left(t)))
            /\ C4_OtherHeaders(t)

\* C4 amended: every 429 carries retry-after equal to the whole seconds
\* left of the window plus one (the seconds left rounded up when they are
\* no whole number, one more than them when they are), which is at least 1
\* whenever window >= 0, with x-ratelimit-remaining 0 and the reset epoch
\* of windowStart + window (in whole seconds).
C4_RetryAfterWholeSecondsPlusOne ==
    \A t \in Threads :
        Served429(t) =>
            /\ resp[t].headers.retry_after = C4_Whole(C4_Left(t)) + 1
            /\ resp[t].content.retry_after = resp[t].headers.retry_after
            /\ C4_Left(t) % 10 # 0 =>
                  resp[t].headers.retry_after = C4_Ceil(C4_Left(t))
            /\ req[t].window >= 0 => resp[t].headers.retry_after >= 1
            /\ C4_OtherHeaders(t)

C4_Witness ==
    /\ Served429(1)
    /\ req[1].window = 1
    /\ C4_Left(1) = 5
    /\ resp[1].headers.retry_after = 1

\* the counter stored under client c
C10_Counter(c) == obj[c][request_counts[c]]

\* thread t serves client c, is at the roll-over of lines 200-201, and read
\* the clock more than its window after the start of the window
C10_RollsOver(t, c) ==
    /\ req[t].client_ip = c
    /\ pc[t] \in {"l200", "l201"}
    /\ loc[t].current_time - C10_Counter(c).window_start > Seconds(req[t].window)

C10_State ==
    /\ \A c \in Clients : \A i \in Threads : obj[c][i].count >= 0
    /\ \A t \in Threads : Served429(t) => loc[t].loaded = -1

C10_Step ==
    /\ \A c \in Clients :
          (request_counts[c] # 0 /\ request_counts'[c] = request_counts[c]) =>
              /\ (C10_Counter(c)'.count < C10_Counter(c).count
                     \/ C10_Counter(c)'.window_start # C10_Counter(c).window_start)
                 => \E t \in Threads : C10_RollsOver(t, c)
              /\ (\E t \in Threads : req[t].client_ip = c /\ pc[t] \in
                     {"l205", "l211", "l224", "l225"})
                 => C10_Counter(c)'.count = C10_Counter(c).count
    /\ \A t \in Threads :
          /\ (pc[t] = "l199" /\ pc'[t] # "l199") =>
                (pc'[t] = "l200" <=>
                    loc[t].current_time - Data(t).window_start
                        > Seconds(req[t].window))
          /\ (pc[t] = "l201" /\ pc'[t] # "l201") =>
                /\ Data(t)'.count = 0
                /\ Data(t)'.window_start = loc[t].current_time

\* C10 (specification SpecSeq): a counter's count is never negative; while
\* the counter stays in the store its count goes down or its window start
\* changes only in the roll-over of a request that read the clock strictly
\* more than window after the window start, and every request that reads
\* the counter that late sets count to 0 and the window start to its clock
\* reading; a request answered 429 increments nothing.
C10_CountWithinWindow == []C10_State /\ [][C10_Step]_vars

C10_Witness ==
    /\ pc[1] = "l201"
    /\ Data(1).count = 0
    /\ Data(1).window_start < loc[1].current_time - Seconds(req[1].window)
    /\ req[1].window >= 1

(***************************************************************************)
(* Claims about the coroutines                                             *)
(***************************************************************************)
TaskDone(k) == tpc[k] = "done"

\* C7 (specification SpecLoop): a delay request with seconds > 30 is
\* answered 400 without ever having been suspended; an accepted request
\* with jitter=false has an applied delay of exactly seconds, with
\* jitter=true one of at least 0.1 second, and its response is returned
\* only after a suspension of at least the applied delay.
C7_DelayHandler ==
    \A k \in Tasks :
        targ[k].fn = "slow" =>
            /\ targ[k].seconds > 30 =>
                  /\ ~tloc[k].suspended
                  /\ tpc[k] \in {"started", "done"}
                  /\ TaskDone(k) => /\ tres[k].kind = "HTTPException"
                                    /\ tres[k].status_code = 400
            /\ (tloc[k].suspended /\ ~targ[k].jitter) =>
                  tloc[k].actual_delay = 10 * targ[k].seconds
            /\ (tloc[k].suspended /\ targ[k].jitter) => tloc[k].actual_delay >= 1
            /\ (TaskDone(k) /\ targ[k].seconds <= 30) =>
                  /\ tres[k].status_code = 200
                  /\ tres[k].content.status = "success"
                  /\ tres[k].content.delay_seconds = tloc[k].actual_delay
                  /\ tloc[k].suspended
                  /\ tloc[k].timer = 0
                  /\ tloc[k].slept >= tloc[k].actual_delay
                  /\ tres[k].content.actual_elapsed >= tloc[k].actual_delay

C7_Witness ==
    /\ targ[1].fn = "slow" /\ targ[1].seconds = 30 /\ ~targ[1].jitter
    /\ TaskDone(1)
    /\ tres[1].content.delay_seconds = 300
    /\ tres[1].content.actual_elapsed >= 300

\* the event loop thread is held by no suspended coroutine: it is free, or
\* held by a task that is executing statements
C9_LoopNotHeldBySleeper ==
    /\ loop # 0 => tpc[loop] \in {"started", "l118", "woken"}
    /\ \A k \in Tasks : tpc[k] = "sleeping" => loop # k

\* the hang handler waits min(hang_time, 120) seconds and rejects nothing
C9_HangClamps ==
    \A k \in Tasks :
        targ[k].fn = "timeout" =>
            /\ tpc[k] \in {"started", "sleeping", "woken", "done"}
            /\ tloc[k].suspended =>
                  /\ tloc[k].hang_time = Min(targ[k].hang_time, 120)
                  /\ tloc[k].timer + tloc[k].slept >= 10 * tloc[k].hang_time
            /\ TaskDone(k) =>
                  /\ tres[k].status_code = 200
                  /\ tres[k].content.status = "timeout_expired"
                  /\ tloc[k].slept >= 10 * Min(targ[k].hang_time, 120)

\* a suspended request has returned its success metadata
C9_Returned(k) ==
    /\ TaskDone(k)
    /\ tres[k].kind = "dict"
    /\ tres[k].status_code = 200
    /\ tres[k].content.status \in {"success", "timeout_expired"}

JsonErrors ==
    {"missing_comma", "unclosed_brace", "invalid_escape", "trailing_comma",
     "unquoted_key", "single_quotes"}

\* lines 74-103: an unknown error_type falls back to "missing_comma"
simulate_invalid_json(error_type) ==
    LET chosen == IF error_type \notin JsonErrors THEN "missing_comma"
                  ELSE error_type
    IN  [kind |-> "PlainTextResponse", status_code |-> 200,
         content |-> chosen,
         headers |-> [content_type |-> "application/json",
                      x_debug_mode |-> "true",
                      x_json_error_type |-> chosen,
                      x_expected_error |-> "JSON parse error"]]

InvalidJsonCall ==
    /\ handler_in.fn = "invalid_json"
    /\ handler_out = NoValue
    /\ handler_out' = simulate_invalid_json(handler_in.error_type)
    /\ UNCHANGED <<handler_in, drawn_from, rlVars, loopVars>>

\* the requests to the handlers that keep no state
PlainInputs ==
    [fn : {"status"}, code : {404}, include_headers : {TRUE}]
    \cup [fn : {"random"}, exclude_codes : {Join(AllBut(1))}]
    \cup [fn : {"invalid_json"}, error_type : {"other"}]

\* a worker thread of the pool takes a request to such a handler once the
\* previous one was answered
PlainRequest ==
    /\ handler_in = NoCall \/ handler_out # NoValue
    /\ handler_in' \in PlainInputs
    /\ handler_out' = NoValue
    /\ drawn_from' = <<>>
    /\ UNCHANGED <<rlVars, loopVars>>

\* lines 124 and 154: the client disconnects while the coroutine of task k
\* is suspended and the server gives the request up; the await raises
\* CancelledError, which the handler neither catches nor cleans up after
Abandon(k) ==
    /\ tpc[k] = "sleeping"
    /\ TaskGoto(k, "abandoned")
    /\ UNCHANGED <<loop, targ, tloc, tres, pureVars, rlVars>>

\* the requests given to the event loop next to the rate-limit requests
LoopInputs ==
    [fn : {"slow"}, seconds : {MAX_DELAY}, jitter : {FALSE}]
    \cup [fn : {"timeout"}, hang_time : {1}]
    \cup [fn : {"network_error"}, error_type : {"dns_failure"}]
    \cup [fn : {"status"}, code : {404}, include_headers : {TRUE}]

AllArrive == Dispatch(1) /\ targ'[1] \in LoopInputs

\* the rate-limit requests arrive one after the other, from either client
AllBegin ==
    \E c \in Clients, r \in BOOLEAN :
        /\ Begin(1, c, 1, 0, r, {"idle", "done"})
        /\ served' = [served EXCEPT ![c].last = Kind(r)]

NextAll ==
    \/ AllBegin \/ SeqStatement \/ ConcTick
    \/ AllArrive \/ Progress \/ Abandon(1)
    \/ PlainRequest \/ StatusCall \/ RandomCall \/ InvalidJsonCall

SpecAll == InitWorkers /\ [][NextAll]_vars

(***************************************************************************)
(* Claims about the store (specification SpecAll)                          *)
(***************************************************************************)
\* the entry of the store under key c: the key and the dict it refers to
Entry(c) == <<request_counts[c], obj[c]>>

\* thread t executes a statement of the rate-limit handler for client c
C11_ActsFor(t, c) ==
    /\ <<pc[t], req[t], loc[t], resp[t]>>' # <<pc[t], req[t], loc[t], resp[t]>>
    /\ req'[t].client_ip = c

\* a step of one of the other handlers: of a coroutine, the passing of its
\* timer, its abandonment, or a call of a handler that keeps no state
C11_OtherHandler ==
    \/ <<loop, tpc, targ, tloc, tres>>' # <<loop, tpc, targ, tloc, tres>>
    \/ <<handler_in, handler_out, drawn_from>>' # <<handler_in, handler_out, drawn_from>>

C11_Step ==
    /\ \A c \in Clients :
          Entry(c)' # Entry(c) => \E t \in Threads : C11_ActsFor(t, c)
    /\ C11_OtherHandler => UNCHANGED <<request_counts, obj>>

\* C11: the store is changed only by the rate-limit handler and only at the
\* key of the requesting client: a step of a rate-limit request of client
\* A, normal or reset, leaves every other client's entry as it was, and
\* every step of the status, invalid-json, delay, hang, random and
\* network-error handlers, the abandonment of a suspended request
\* included, leaves the whole store as it was.
C11_StoreFrame == [][C11_Step]_vars

\* client 10.0.0.2 holds a counter of 1 after a reset of client 10.0.0.1, a
\* suspended request was abandoned and the invalid-json handler has answered
C11_Witness ==
    /\ \E t \in Threads :
          /\ pc[t] = "done"
          /\ req[t].client_ip = "10.0.0.1" /\ req[t].reset_counts
          /\ resp[t].content.status = "reset"
    /\ request_counts["10.0.0.1"] = 0
    /\ request_counts["10.0.0.2"] # 0
    /\ obj["10.0.0.2"][request_counts["10.0.0.2"]].count = 1
    /\ tpc[1] = "abandoned"
    /\ handler_in.fn = "invalid_json" /\ handler_out # NoValue

====
